---------------------------- MODULE Spec2Model ----------------------------
(***************************************************************************)
(* Model of the HL7-API repository: the analyzer LIS middleware           *)
(* (src/main.py, FastAPI) and the HL7 message server (src/server.py,      *)
(* Flask).                                                                *)
(*                                                                         *)
(* Text is modelled as a sequence of lexemes.  A lexeme is a run of       *)
(* characters that the code never looks inside (a sample id, a test code, *)
(* a result value) or a single delimiter character ("|", "=", "\r").      *)
(* No lexeme of the alphabets below is a concatenation of others, so two  *)
(* texts are equal as strings iff they are equal as lexeme sequences.     *)
(* A character outside ASCII is a lexeme of its own, written \uXXXX with  *)
(* the four hexadecimal digits of its code point (the e-acute is the      *)
(* lexeme "\\u00e9"), so that the module holds ASCII characters only.      *)
(***************************************************************************)
EXTENDS Integers, Sequences, FiniteSets, TLC

VARIABLES
    now,                \* main.py: the wall clock, in ticks
    secretKey,          \* main.py: SECRET_KEY, drawn once per process
    issued,             \* main.py: the tokens successful logins returned, with the instant of each login
    lisResp,            \* main.py: the last request and its response
    srvNow,             \* server.py: the wall clock of the Flask process
    hl7Resp,            \* server.py: the last response given, with its request
    heap,               \* server.py: the list objects, by address
    glob,               \* server.py: the list the global name received_messages is bound to
    pc,                 \* server.py: where each request's handler stands
    loc,                \* server.py: the locals of each request's handler
    answered            \* server.py: the response each request got

vars == <<now, secretKey, issued, lisResp, srvNow, hl7Resp, heap, glob, pc, loc, answered>>


(***************************************************************************)
(* Bounds of the model.                                                    *)
(***************************************************************************)
TicksPerSecond == 2     \* clock resolution: ticks in one second
MaxIssued == 2          \* tokens a run keeps track of
MaxUploadTokens == 2    \* test tokens after the sample id in an upload path
MaxStore == 2           \* records the message store holds before receives stop
MaxSrvTime == 1         \* last instant of the HL7 server's clock
MaxRequests == 3        \* concurrent requests of one run

(***************************************************************************)
(* Generic text helpers (Python str.split / str.join on lexeme sequences). *)
(***************************************************************************)
\* index of the first occurrence of lexeme c in s at or after position from, 0 if none
RECURSIVE FindFrom(_, _, _)
FindFrom(s, c, from) ==
    IF from > Len(s) THEN 0
    ELSE IF s[from] = c THEN from
    ELSE FindFrom(s, c, from + 1)

\* s.split(sep): always at least one part; the parts never contain sep
RECURSIVE SplitOn(_, _)
SplitOn(s, sep) ==
    LET i == FindFrom(s, sep, 1)
    IN  IF i = 0 THEN <<s>>
        ELSE <<SubSeq(s, 1, i - 1)>> \o SplitOn(SubSeq(s, i + 1, Len(s)), sep)

\* s.split(sep, 1): at most one cut, at the first sep
SplitOnce(s, sep) ==
    LET i == FindFrom(s, sep, 1)
    IN  IF i = 0 THEN <<s>>
        ELSE <<SubSeq(s, 1, i - 1), SubSeq(s, i + 1, Len(s))>>

\* sep.join(parts)
RECURSIVE Join(_, _)
Join(parts, sep) ==
    IF Len(parts) = 0 THEN <<>>
    ELSE IF Len(parts) = 1 THEN parts[1]
    ELSE parts[1] \o <<sep>> \o Join(Tail(parts), sep)

\* the text of a single lexeme, and the list of one-lexeme texts of a list of lexemes
Str(x) == <<x>>
StrEach(xs) == [i \in 1..Len(xs) |-> <<xs[i]>>]

\* all sequences over S of length at most n
SeqUpTo(S, n) == UNION {[1..k -> S] : k \in 0..n}

(***************************************************************************)
(* src/main.py: configuration and mock data.                               *)
(***************************************************************************)
TOKEN_EXPIRATION_MINUTES == 60
VALID_USERNAME == "wsadmin"
VALID_PASSWORD == "password"

\* secrets.token_urlsafe(32): one of the keys a process may draw
Keys == {"k1", "k2"}

MOCK_SAMPLES ==
    [s \in {"S001", "S002"} |->
        IF s = "S001"
        THEN [patient_id |-> "P12345", patient_name |-> "John Doe",
              patient_gender |-> "M", patient_dob |-> "1980-01-15",
              tests |-> <<"CBC", "GLU", "CRE">>]
        ELSE [patient_id |-> "P67890", patient_name |-> "Jane Smith",
              patient_gender |-> "F", patient_dob |-> "1990-05-20",
              tests |-> <<"HBA1C", "TSH">>]]

MOCK_TESTS ==
    << <<"CBC", "Complete Blood Count">>,
       <<"GLU", "Glucose">>,
       <<"CRE", "Creatinine">>,
       <<"HBA1C", "Hemoglobin A1C">>,
       <<"TSH", "Thyroid Stimulating Hormone">>,
       <<"ALT", "Alanine Aminotransferase">>,
       <<"AST", "Aspartate Aminotransferase">> >>

\* key in dict / item in list, for a text that may span several lexemes
InSamples(text) == Len(text) = 1 /\ text[1] \in DOMAIN MOCK_SAMPLES
SampleOf(text) == MOCK_SAMPLES[text[1]]
InTests(text, tests) ==
    Len(text) = 1 /\ \E i \in 1..Len(tests) : tests[i] = text[1]

(***************************************************************************)
(* Time, in ticks.  The instants at which the model looks at the clock are *)
(* process start, one tick and one second later, and the ticks around one  *)
(* token lifetime after process start.  The clock never runs backwards.    *)
(***************************************************************************)
LifetimeTicks == TOKEN_EXPIRATION_MINUTES * 60 * TicksPerSecond
TimePoints ==
    {0, 1, TicksPerSecond,
     LifetimeTicks - 1, LifetimeTicks, LifetimeTicks + 1, LifetimeTicks + TicksPerSecond}

\* timegm(dt.utctimetuple()): a datetime as whole seconds, sub-second part dropped
ToSeconds(t) == t \div TicksPerSecond

(***************************************************************************)
(* Tokens.  The token header is Optional[str]: absent, the empty string,   *)
(* a string that is no JWT, or a JWT.  A JWT carries its payload and the   *)
(* key its HS256 signature was made with.                                  *)
(***************************************************************************)
NoPayload == [sub |-> "", exp |-> 0, iat |-> 0]
AbsentToken == [kind |-> "absent", payload |-> NoPayload, sig |-> ""]
EmptyToken == [kind |-> "empty", payload |-> NoPayload, sig |-> ""]
GarbageToken == [kind |-> "garbage", payload |-> NoPayload, sig |-> ""]

\* jwt.encode keeping the fraction of a second of its datetime claims
jwt_encode_KeepFraction(sub, expAt, iatAt, key) ==
    [kind |-> "jwt",
     payload |-> [sub |-> sub, exp |-> expAt, iat |-> iatAt],
     sig |-> key]

\* jwt.encode(payload, key, algorithm=ALGORITHM): datetime claims become whole seconds
jwt_encode(sub, expAt, iatAt, key) ==
    [kind |-> "jwt",
     payload |-> [sub |-> sub, exp |-> ToSeconds(expAt), iat |-> ToSeconds(iatAt)],
     sig |-> key]

\* jwt.decode(token, key, algorithms=[ALGORITHM]) at instant t: the exception it
\* raises, or "ok".  The signature is verified first, then iat, then exp.
jwt_decode(token, key, t) ==
    IF token.kind # "jwt" THEN "DecodeError"
    ELSE IF token.sig # key THEN "InvalidSignatureError"
    ELSE IF token.payload.iat * TicksPerSecond > t THEN "ImmatureSignatureError"
    ELSE IF token.payload.exp * TicksPerSecond <= t THEN "ExpiredSignatureError"
    ELSE "ok"

\* generate_token(username); t1 and t2 are its two readings of the clock
generate_token(username, t1, t2, key) ==
    jwt_encode(username, t1 + LifetimeTicks, t2, key)

\* validate_token with its except clauses in the other order: ExpiredSignatureError
\* is an InvalidTokenError, so every failure reads INVALID_LOGIN
validate_token_ExceptSwapped(token, key, t) ==
    LET d == jwt_decode(token, key, t)
    IN  IF d = "ok" THEN [raised |-> FALSE, detail |-> "", payload |-> token.payload]
        ELSE [raised |-> TRUE, detail |-> "INVALID_LOGIN", payload |-> NoPayload]

\* validate_token(token) at instant t: the payload, or the HTTPException raised
validate_token(token, key, t) ==
    LET d == jwt_decode(token, key, t)
    IN  IF d = "ok" THEN [raised |-> FALSE, detail |-> "", payload |-> token.payload]
        ELSE IF d = "ExpiredSignatureError"
        THEN [raised |-> TRUE, detail |-> "EXPIRED_TOKEN", payload |-> NoPayload]
        ELSE [raised |-> TRUE, detail |-> "INVALID_LOGIN", payload |-> NoPayload]

\* Python truthiness of the Optional[str] header: None and "" are falsy
Truthy(token) == token.kind \notin {"absent", "empty"}

(***************************************************************************)
(* src/main.py: the four analyzer handlers as functions of their inputs.   *)
(* A response is a text; the login response also carries the token.        *)
(***************************************************************************)
\* login accepting a right user name or a right password
login_EitherMatches(userName, password, t1, t2, key) ==
    IF userName = VALID_USERNAME \/ password = VALID_PASSWORD
    THEN [text |-> <<"OK_LOGIN", "|">>, token |-> generate_token(userName, t1, t2, key)]
    ELSE [text |-> Str("INVALID_LOGIN"), token |-> AbsentToken]

\* login(userName, password)
login(userName, password, t1, t2, key) ==
    IF userName = VALID_USERNAME /\ password = VALID_PASSWORD
    THEN [text |-> <<"OK_LOGIN", "|">>, token |-> generate_token(userName, t1, t2, key)]
    ELSE [text |-> Str("INVALID_LOGIN"), token |-> AbsentToken]

\* get_pending_tests looking the sample up before it checks the token
get_pending_tests_LookupFirst(sample_id, token, key, t) ==
    IF ~InSamples(sample_id) THEN Str("NOT_FOUND")
    ELSE IF ~Truthy(token) THEN Str("INVALID_LOGIN")
    ELSE LET v == validate_token(token, key, t)
         IN  IF v.raised THEN Str(v.detail)
             ELSE Join(<<Str("QUERY_OK")>> \o StrEach(SampleOf(sample_id).tests), "|")

\* get_pending_tests(sample_id, token)
get_pending_tests(sample_id, token, key, t) ==
    IF ~Truthy(token) THEN Str("INVALID_LOGIN")
    ELSE LET v == validate_token(token, key, t)
         IN  IF v.raised THEN Str(v.detail)
             ELSE IF ~InSamples(sample_id) THEN Str("NOT_FOUND")
             ELSE LET sample == SampleOf(sample_id)
                      response_parts ==
                          << Str("QUERY_OK"), Str(ToString(Len(sample.tests))),
                             Str(sample.patient_id), Str(sample.patient_name),
                             Str(sample.patient_gender), Str(sample.patient_dob) >>
                          \o StrEach(sample.tests)
                  IN  Join(response_parts, "|")

\* the status flag computed from the whole part, the "=Result" not cut off
UploadFlag_NoSplit(part, sample_id) ==
    IF FindFrom(part, "=", 1) # 0
    THEN IF InTests(part, SampleOf(sample_id).tests) THEN "UPLOADED" ELSE "NOT_FOUND"
    ELSE "NOT_FOUND"

\* the status flag with the part cut at every "=", as split("=") would, the
\* unpacking of more than two pieces raising the ValueError the loop catches
UploadFlag_SplitAll(part, sample_id) ==
    IF FindFrom(part, "=", 1) # 0
    THEN IF Len(SplitOn(part, "=")) # 2 THEN "NOT_FOUND"
         ELSE LET test_code == SplitOn(part, "=")[1]
              IN  IF InTests(test_code, SampleOf(sample_id).tests)
                  THEN "UPLOADED" ELSE "NOT_FOUND"
    ELSE "NOT_FOUND"

\* the status flag of one part of the upload path (the body of the for loop)
UploadFlag(part, sample_id) ==
    IF FindFrom(part, "=", 1) # 0
    THEN LET test_code == SplitOnce(part, "=")[1]
         IN  IF InTests(test_code, SampleOf(sample_id).tests)
             THEN "UPLOADED" ELSE "NOT_FOUND"
    ELSE "NOT_FOUND"

\* upload_results accepting a path that is a sample id alone
upload_results_NoPartsCheck(path_data, token, key, t) ==
    IF ~Truthy(token) THEN Str("INVALID_LOGIN")
    ELSE LET v == validate_token(token, key, t)
         IN  IF v.raised THEN Str(v.detail)
             ELSE LET parts == SplitOn(path_data, "|")
                      sample_id == parts[1]
                  IN  IF ~InSamples(sample_id) THEN Str("NOT_FOUND")
                      ELSE Join([i \in 1..(Len(parts) - 1) |->
                                    Str(UploadFlag(parts[i + 1], sample_id))], "|")

\* upload_results(path_data, token)
upload_results(path_data, token, key, t) ==
    IF ~Truthy(token) THEN Str("INVALID_LOGIN")
    ELSE LET v == validate_token(token, key, t)
         IN  IF v.raised THEN Str(v.detail)
             ELSE LET parts == SplitOn(path_data, "|")
                  IN  IF Len(parts) < 2 THEN Str("NOT_FOUND")
                      ELSE LET sample_id == parts[1]
                           IN  IF ~InSamples(sample_id) THEN Str("NOT_FOUND")
                               ELSE LET status_flags ==
                                        [i \in 1..(Len(parts) - 1) |->
                                            Str(UploadFlag(parts[i + 1], sample_id))]
                                    IN  Join(status_flags, "|")

\* get_tests_list(token)
get_tests_list(token, key, t) ==
    IF ~Truthy(token) THEN Str("INVALID_LOGIN")
    ELSE LET v == validate_token(token, key, t)
         IN  IF v.raised THEN Str(v.detail)
             ELSE IF Len(MOCK_TESTS) = 0 THEN Str("NOT_FOUND")
             ELSE LET response_parts ==
                          << Str("QUERY_OK"), Str(ToString(Len(MOCK_TESTS))) >>
                          \o [i \in 1..Len(MOCK_TESTS) |->
                                <<MOCK_TESTS[i][1], "\t", MOCK_TESTS[i][2]>>]
                  IN  Join(response_parts, "|")

(***************************************************************************)
(* Inputs of the analyzer endpoints.                                       *)
(***************************************************************************)
UserNames == {VALID_USERNAME, "admin"}
Passwords == {VALID_PASSWORD, "wsadmin"}

\* JWTs made without the process's key, long expired or far from expiry
ForgedTokens ==
    {[kind |-> "jwt", payload |-> [sub |-> VALID_USERNAME, exp |-> e, iat |-> 0], sig |-> k] :
        e \in {0, 3 * TOKEN_EXPIRATION_MINUTES * 60}, k \in Keys \ {secretKey}}

IssuedTokens == {i.token : i \in issued}
HeaderTokens == {AbsentToken, EmptyToken, GarbageToken} \cup ForgedTokens \cup IssuedTokens

\* sample ids sent to tests_lis_download (a path parameter is never empty)
SampleArgs == {Str("S001"), Str("S002"), Str("S999")}

\* the parts of an upload path: a sample id, then test tokens
SampleStrs == {Str("S001"), Str("S002"), Str("S999")}
TokenStrs ==
    { <<"CBC", "=", "1">>, <<"HBA1C", "=", "2">>, <<"CBC">>,
      <<"CBC", "=", "1", "=", "2">>, <<>> }
PathInputs ==
    {Join(<<s>> \o ts, "|") : s \in SampleStrs, ts \in SeqUpTo(TokenStrs, MaxUploadTokens)}

\* upload paths tried together with every kind of token and instant
AuthPaths ==
    { Str("S001"), <<"S001", "|", "CBC", "=", "1">>, <<"S999", "|", "CBC", "=", "1">>,
      <<"S002", "|", "CBC", "=", "1", "|", "TSH", "=", "2">> }

(***************************************************************************)
(* The analyzer middleware as a state machine.                             *)
(***************************************************************************)
NoLisResp ==
    [ep |-> "none", userName |-> "", password |-> "", token |-> AbsentToken,
     arg |-> <<>>, at |-> 0, text |-> <<>>, newToken |-> AbsentToken]

LisInit ==
    /\ now = 0
    /\ secretKey \in Keys
    /\ issued = {}
    /\ lisResp = NoLisResp

\* time passes between requests
Advance ==
    /\ \E t \in TimePoints : t > now /\ now' = t
    /\ UNCHANGED <<secretKey, issued, lisResp>>

\* ticks the clock moves between the two readings generate_token makes of it
ClockSkews == {0, 1}

\* GET /lis_apis/applogin.  generate_token reads the clock twice, for exp and then
\* for iat; the second reading is later than the first by one of skews, and the
\* clock stands there when the response leaves.
Login(skews) ==
    \E u \in UserNames, p \in Passwords :
        \E t2 \in {t \in TimePoints : t - now \in skews} :
            LET r == login(u, p, now, t2, secretKey)
                i == [token |-> r.token, at |-> now, iatAt |-> t2]
            IN  /\ r.token.kind = "jwt" => (i \in issued \/ Cardinality(issued) < MaxIssued)
                /\ r.token.kind # "jwt" => t2 = now
                /\ issued' = IF r.token.kind = "jwt" THEN issued \cup {i} ELSE issued
                /\ lisResp' = [ep |-> "login", userName |-> u, password |-> p,
                               token |-> AbsentToken, arg |-> <<>>, at |-> now,
                               text |-> r.text, newToken |-> r.token]
                /\ now' = t2
                /\ UNCHANGED secretKey

\* GET /lis_apis/tests_lis_download/{sample_id}
GetPendingTests ==
    \E sample_id \in SampleArgs, token \in HeaderTokens :
        /\ lisResp' = [NoLisResp EXCEPT !.ep = "tests_lis_download", !.token = token,
                         !.arg = sample_id, !.at = now,
                         !.text = get_pending_tests(sample_id, token, secretKey, now)]
        /\ UNCHANGED <<now, secretKey, issued>>

\* POST /lis_apis/results_lis_upload/{path_data}
UploadResults(paths, tokens) ==
    \E path_data \in paths, token \in tokens :
        /\ lisResp' = [NoLisResp EXCEPT !.ep = "results_lis_upload", !.token = token,
                         !.arg = path_data, !.at = now,
                         !.text = upload_results(path_data, token, secretKey, now)]
        /\ UNCHANGED <<now, secretKey, issued>>

\* GET /lis_apis/get_tests_list
GetTestsList ==
    \E token \in HeaderTokens :
        /\ lisResp' = [NoLisResp EXCEPT !.ep = "get_tests_list", !.token = token,
                         !.at = now,
                         !.text = get_tests_list(token, secretKey, now)]
        /\ UNCHANGED <<now, secretKey, issued>>

LisIdle == UNCHANGED <<srvNow, hl7Resp, heap, glob, pc, loc, answered>>



(***************************************************************************)
(* src/server.py: the HL7 parser the handlers call (python-hl7's           *)
(* hl7.parse and Message.segment), on lexeme sequences.                    *)
(***************************************************************************)
\* the characters str.strip() removes from a str: the ASCII ones (tab, line feed,
\* vertical tab, form feed, carriage return, the separators 0x1C..0x1F, space)
AsciiWhitespace ==
    {"\t", "\n", "\f", "\r", " ", "", "", "", "", ""}

\* and the ones outside ASCII, each written as the lexeme \uXXXX of its code point
UnicodeWhitespace ==
    {"\\u0085", "\\u00a0", "\\u1680", "\\u2000", "\\u2001",
     "\\u2002", "\\u2003", "\\u2004", "\\u2005", "\\u2006",
     "\\u2007", "\\u2008", "\\u2009", "\\u200a", "\\u2028",
     "\\u2029", "\\u202f", "\\u205f", "\\u3000"}

Whitespace == AsciiWhitespace \cup UnicodeWhitespace
HeaderSegments == {"MSH", "FHS", "BHS"}

\* str.strip()
RECURSIVE LStrip(_)
LStrip(s) == IF s # <<>> /\ Head(s) \in Whitespace THEN LStrip(Tail(s)) ELSE s
RECURSIVE RStrip(_)
RStrip(s) ==
    IF s # <<>> /\ s[Len(s)] \in Whitespace THEN RStrip(SubSeq(s, 1, Len(s) - 1)) ELSE s
Strip(s) == RStrip(LStrip(s))

\* the fields of one segment.  A header segment names its own separators: its
\* fields are the segment name, the field separator, the encoding characters, and
\* then what follows the second separator, cut at the separator.
SegmentFields(text, sep) ==
    IF text # <<>> /\ text[1] \in HeaderSegments
    THEN LET sep0 == text[2]
             j == FindFrom(text, sep0, 3)
             rest == IF j = 0 THEN text ELSE SubSeq(text, j + 1, Len(text))
             seps == IF j = 0 THEN SubSeq(text, 3, Len(text) - 1) ELSE SubSeq(text, 3, j - 1)
         IN  <<Str(text[1]), Str(sep0), seps>>
             \o (IF rest = <<>> THEN <<>> ELSE SplitOn(rest, sep))
    ELSE SplitOn(text, sep)

\* hl7.parse(lines): the exception it raises ("none" if it returns) and the segments
hl7_parse(lines) ==
    LET strmsg == Strip(lines)
    IN  IF strmsg = <<>> \/ strmsg[1] \notin HeaderSegments
        THEN [exc |-> "ParseException", segments |-> <<>>]
        ELSE IF Len(strmsg) < 2
        THEN [exc |-> "IndexError", segments |-> <<>>]
        ELSE LET sep == strmsg[2]
                 texts == SplitOn(strmsg, "\r")
             IN  IF \E i \in 1..Len(texts) :
                        texts[i] # <<>> /\ texts[i][1] \in HeaderSegments /\ Len(texts[i]) < 2
                 THEN [exc |-> "IndexError", segments |-> <<>>]
                 ELSE [exc |-> "none",
                       segments |-> [i \in 1..Len(texts) |-> SegmentFields(texts[i], sep)]]

\* message.segment('MSH'): the position of the first MSH segment, 0 for its KeyError
RECURSIVE FirstSegment(_, _, _)
FirstSegment(segments, name, from) ==
    IF from > Len(segments) THEN 0
    ELSE IF segments[from][1] = Str(name) THEN from
    ELSE FirstSegment(segments, name, from + 1)

\* what the statements between hl7.parse and the response compute, or the
\* exception that ends them: message.segment('MSH') raises KeyError when there is
\* no MSH segment, and [9] raises IndexError on an MSH of fewer than ten fields.
\* has_msh is the truth value of the segment found (a segment is a non-empty list)
Hl7Extract(message_data) ==
    LET message == hl7_parse(message_data)
        m == FirstSegment(message.segments, "MSH", 1)
        none == [exc |-> "none", has_msh |-> FALSE, message_type |-> <<>>,
                 segment_count |-> 0, segments |-> <<>>]
    IN  IF message.exc # "none" THEN [none EXCEPT !.exc = message.exc]
        ELSE IF m = 0 THEN [none EXCEPT !.exc = "KeyError"]
        ELSE IF Len(message.segments[m]) < 10 THEN [none EXCEPT !.exc = "IndexError"]
        ELSE [exc |-> "none", has_msh |-> Len(message.segments[m]) > 0,
              message_type |-> message.segments[m][10],
              segment_count |-> Len(message.segments),
              segments |-> [i \in 1..Len(message.segments) |-> message.segments[i][1]]]

\* receive_hl7_message: str(MSH[9]) if the MSH segment is truthy, else 'Unknown'
ReceiveType(x) == IF x.has_msh THEN x.message_type ELSE Str("Unknown")

\* validate_hl7_message: str(MSH[9]) if the MSH segment is truthy, else None
ValidateType(x) == IF x.has_msh THEN <<x.message_type>> ELSE <<>>

(***************************************************************************)
(* src/server.py: the handlers.  A JSON body is a record of all the fields  *)
(* any response uses; keys names the ones present.  An optional value is a  *)
(* sequence of at most one element, <<>> being null.  A timestamp is the    *)
(* instant the clock showed (isoformat renders instants one to one).        *)
(***************************************************************************)
NoJson ==
    [keys |-> {}, error |-> <<>>, status |-> <<>>, valid |-> FALSE,
     message_type |-> <<>>, segment_count |-> 0, timestamp |-> 0, has_msh |-> FALSE,
     segments |-> <<>>, count |-> 0, messages |-> <<>>, cleared_count |-> 0]

\* health_check()
health_check(t) ==
    [http |-> 200,
     json |-> [NoJson EXCEPT !.keys = {"status", "timestamp"},
                             !.status = Str("healthy"), !.timestamp = t]]

\* receive_hl7_message answering with str(e) of the exception it caught
receive_hl7_message_EchoDetail(message_data, store, t) ==
    LET x == Hl7Extract(message_data)
        message_record ==
            [timestamp |-> t, message_type |-> ReceiveType(x),
             raw_message |-> message_data, segment_count |-> x.segment_count]
    IN  IF message_data = <<>>
        THEN [http |-> 400,
              json |-> [NoJson EXCEPT !.keys = {"error"},
                                      !.error = Str("No message data provided")],
              store |-> store]
        ELSE IF x.exc # "none"
        THEN [http |-> 400,
              json |-> [NoJson EXCEPT !.keys = {"error"},
                                      !.error = <<"Failed to parse HL7 message: ", x.exc>>],
              store |-> store]
        ELSE [http |-> 200,
              json |-> [NoJson EXCEPT
                          !.keys = {"status", "message_type", "segment_count", "timestamp"},
                          !.status = Str("success"),
                          !.message_type = <<ReceiveType(x)>>,
                          !.segment_count = x.segment_count,
                          !.timestamp = t],
              store |-> Append(store, message_record)]

\* receive_hl7_message(): the response and the store it leaves
receive_hl7_message(message_data, store, t) ==
    IF message_data = <<>>
    THEN [http |-> 400,
          json |-> [NoJson EXCEPT !.keys = {"error"},
                                  !.error = Str("No message data provided")],
          store |-> store]
    ELSE LET x == Hl7Extract(message_data)
         IN  IF x.exc # "none"
             THEN [http |-> 400,
                   json |-> [NoJson EXCEPT !.keys = {"error"},
                                           !.error = Str("Failed to parse HL7 message")],
                   store |-> store]
             ELSE LET message_record ==
                          [timestamp |-> t, message_type |-> ReceiveType(x),
                           raw_message |-> message_data, segment_count |-> x.segment_count]
                  IN  [http |-> 200,
                       json |-> [NoJson EXCEPT
                                   !.keys = {"status", "message_type", "segment_count",
                                             "timestamp"},
                                   !.status = Str("success"),
                                   !.message_type = <<ReceiveType(x)>>,
                                   !.segment_count = x.segment_count,
                                   !.timestamp = message_record.timestamp],
                       store |-> Append(store, message_record)]

\* get_messages()
get_messages(store) ==
    [http |-> 200,
     json |-> [NoJson EXCEPT !.keys = {"count", "messages"},
                             !.count = Len(store), !.messages = store]]

\* clear_messages taking the count after it has emptied the store
clear_messages_CountAfterReset(store) ==
    [http |-> 200,
     json |-> [NoJson EXCEPT !.keys = {"status", "cleared_count"},
                             !.status = Str("success"), !.cleared_count = 0],
     store |-> <<>>]

\* clear_messages(): the response and the store it leaves
clear_messages(store) ==
    LET count == Len(store)
    IN  [http |-> 200,
         json |-> [NoJson EXCEPT !.keys = {"status", "cleared_count"},
                                 !.status = Str("success"), !.cleared_count = count],
         store |-> <<>>]

\* validate_hl7_message()
validate_hl7_message(message_data) ==
    IF message_data = <<>>
    THEN [http |-> 400,
          json |-> [NoJson EXCEPT !.keys = {"valid", "error"}, !.valid = FALSE,
                                  !.error = Str("No message data provided")]]
    ELSE LET x == Hl7Extract(message_data)
         IN  IF x.exc # "none"
             THEN [http |-> 200,
                   json |-> [NoJson EXCEPT !.keys = {"valid", "error"}, !.valid = FALSE,
                                           !.error = Str("Invalid HL7 message format")]]
             ELSE [http |-> 200,
                   json |-> [NoJson EXCEPT
                               !.keys = {"valid", "message_type", "segment_count",
                                         "has_msh", "segments"},
                               !.valid = TRUE,
                               !.message_type = ValidateType(x),
                               !.segment_count = x.segment_count,
                               !.has_msh = x.has_msh,
                               !.segments = x.segments]]

(***************************************************************************)
(* Request bodies of the HL7 endpoints.                                    *)
(***************************************************************************)
\* an MSH segment whose ninth field is the message type
MshSegment(type) ==
    Join(<<Str("MSH"), Str("^~\\&"), Str("A"), Str("B"), Str("C"), Str("D"),
           Str("20250101120000"), <<>>, Str(type), Str("MSG1"), Str("P"), Str("2.5")>>, "|")

BodyAdt == MshSegment("ADT^A01") \o <<"\r", "EVN", "|", "A01", "\r">>
BodyOru == MshSegment("ORU^R01")
BodyInvalidMessage == <<"INVALID", "|", "MESSAGE">>
BodyInvalid == <<"INVALID">>
BodySegmentNoMsh == <<"PID", "|", "1">>
BodyBatchNoMsh == <<"BHS", "|", "^~\\&", "\r", "EVN", "|", "A01">>

Bodies ==
    { <<>>, BodyAdt, BodyOru, BodyInvalidMessage, BodyInvalid,
      <<"\t", "\\u00a0", "\r">>,                   \* white space only
      <<"MSH">>,                                   \* a header name and nothing else
      <<"MSH", "|", "^~\\&", "|", "A">>,           \* an MSH too short for a type
      BodySegmentNoMsh,                            \* a segment, but no MSH
      <<"EVN", "|", "A01", "\r">> \o BodyOru,      \* an MSH that is not first
      BodyBatchNoMsh }                             \* a batch header, no MSH

(***************************************************************************)
(* The HL7 server.  Flask's server (app.run) runs each request's handler   *)
(* in a thread of its own and the handlers take no lock, so a handler is    *)
(* modelled step by step, one step for each access to the state the        *)
(* threads share: the clock and the global name received_messages.  A list *)
(* object lives in heap at an address; glob is the address the global name *)
(* is bound to; a list no name refers to any more is dropped.  srvNow is   *)
(* the instant the clock last showed; a handler that reads the clock finds *)
(* it there or later.                                                      *)
(***************************************************************************)
Requests == 1..MaxRequests
Addrs == 1..(MaxRequests + 1)
NoHl7Resp == [op |-> "none", body |-> <<>>, http |-> 0, json |-> NoJson]
NoLocals == [body |-> <<>>, t |-> 0, count |-> 0, ref |-> 0]

\* the list the global name is bound to
received_messages == heap[glob]

ReadClock == \E t \in srvNow..MaxSrvTime : srvNow' = t

\* the list objects some name still refers to, the global g or a local of l
Collect(h, g, l) ==
    [a \in Addrs |-> IF a = g \/ (\E q \in Requests : l[q].ref = a) THEN h[a] ELSE <<>>]

\* the address a new list object gets
FreshAddr ==
    CHOOSE a \in Addrs :
        /\ a # glob /\ \A q \in Requests : loc[q].ref # a
        /\ \A b \in 1..(a - 1) : b = glob \/ \E q \in Requests : loc[q].ref = b

\* request r gets its response and its handler returns
Respond(r, op, body, res) ==
    LET resp == [op |-> op, body |-> body, http |-> res.http, json |-> res.json]
    IN  /\ answered' = [answered EXCEPT ![r] = resp]
        /\ hl7Resp' = resp
        /\ pc' = [pc EXCEPT ![r] = "done"]

\* GET /health
HealthCheck(r) ==
    /\ pc[r] = "idle"
    /\ ReadClock
    /\ Respond(r, "health", <<>>, health_check(srvNow'))
    /\ UNCHANGED <<heap, glob, loc>>

\* POST /api/v1/hl7/validate
ValidateMessage(r, bodies) ==
    /\ pc[r] = "idle"
    /\ \E message_data \in bodies :
          Respond(r, "validate", message_data, validate_hl7_message(message_data))
    /\ UNCHANGED <<srvNow, heap, glob, loc>>

\* POST /api/v1/hl7/message, lines 35-54: the body is parsed and, when that
\* succeeds, the clock is read for the record; otherwise the handler answers 400
ReceiveRecord(r, bodies) ==
    /\ pc[r] = "idle"
    /\ \E message_data \in bodies :
          LET res == receive_hl7_message(message_data, <<>>, srvNow)
          IN  IF res.http # 200
              THEN /\ Respond(r, "receive", message_data, res)
                   /\ UNCHANGED <<srvNow, loc>>
              ELSE /\ Len(heap[glob]) < MaxStore
                   /\ ReadClock
                   /\ loc' = [loc EXCEPT ![r].body = message_data, ![r].t = srvNow']
                   /\ pc' = [pc EXCEPT ![r] = "receive_load"]
                   /\ UNCHANGED <<answered, hl7Resp>>
    /\ UNCHANGED <<heap, glob>>

\* receive_hl7_message, line 55: the name received_messages is looked up
ReceiveLoad(r) ==
    /\ pc[r] = "receive_load"
    /\ loc' = [loc EXCEPT ![r].ref = glob]
    /\ pc' = [pc EXCEPT ![r] = "receive_append"]
    /\ UNCHANGED <<srvNow, hl7Resp, heap, glob, answered>>

\* receive_hl7_message, lines 55-62: append on the list found, then the response
ReceiveAppend(r) ==
    /\ pc[r] = "receive_append"
    /\ LET res == receive_hl7_message(loc[r].body, heap[loc[r].ref], loc[r].t)
       IN  /\ loc' = [loc EXCEPT ![r] = NoLocals]
           /\ heap' = Collect([heap EXCEPT ![loc[r].ref] = res.store], glob, loc')
           /\ Respond(r, "receive", loc[r].body, res)
    /\ UNCHANGED <<srvNow, glob>>

\* get_messages, line 76: the name received_messages is looked up for len()
ListLoad(r) ==
    /\ pc[r] = "idle"
    /\ loc' = [loc EXCEPT ![r].ref = glob]
    /\ pc' = [pc EXCEPT ![r] = "list_len"]
    /\ UNCHANGED <<srvNow, hl7Resp, heap, glob, answered>>

\* get_messages, line 76: len() of the list found, which is then let go
ListLen(r) ==
    /\ pc[r] = "list_len"
    /\ loc' = [loc EXCEPT ![r].count = get_messages(heap[loc[r].ref]).json.count,
                          ![r].ref = 0]
    /\ heap' = Collect(heap, glob, loc')
    /\ pc' = [pc EXCEPT ![r] = "list_ref"]
    /\ UNCHANGED <<srvNow, hl7Resp, glob, answered>>

\* get_messages, line 77: the name is looked up again for 'messages'
ListRef(r) ==
    /\ pc[r] = "list_ref"
    /\ loc' = [loc EXCEPT ![r].ref = glob]
    /\ pc' = [pc EXCEPT ![r] = "list_json"]
    /\ UNCHANGED <<srvNow, hl7Resp, heap, glob, answered>>

\* get_messages, line 75: jsonify writes out the list as it is by then
ListJson(r) ==
    /\ pc[r] = "list_json"
    /\ LET res == get_messages(heap[loc[r].ref])
       IN  /\ loc' = [loc EXCEPT ![r] = NoLocals]
           /\ heap' = Collect(heap, glob, loc')
           /\ Respond(r, "list", <<>>, [res EXCEPT !.json.count = loc[r].count])
    /\ UNCHANGED <<srvNow, glob>>

\* clear_messages, line 85: the name received_messages is looked up for len()
ClearLoad(r) ==
    /\ pc[r] = "idle"
    /\ loc' = [loc EXCEPT ![r].ref = glob]
    /\ pc' = [pc EXCEPT ![r] = "clear_len"]
    /\ UNCHANGED <<srvNow, hl7Resp, heap, glob, answered>>

\* clear_messages, line 85: count = len() of the list found, which is then let go
ClearLen(r) ==
    /\ pc[r] = "clear_len"
    /\ loc' = [loc EXCEPT
                 ![r].count = clear_messages(heap[loc[r].ref]).json.cleared_count,
                 ![r].ref = 0]
    /\ heap' = Collect(heap, glob, loc')
    /\ pc' = [pc EXCEPT ![r] = "clear_bind"]
    /\ UNCHANGED <<srvNow, hl7Resp, glob, answered>>

\* clear_messages, lines 86-90: the name is bound to a new empty list, then the response
ClearBind(r) ==
    /\ pc[r] = "clear_bind"
    /\ LET res == clear_messages(heap[glob])
       IN  /\ loc' = [loc EXCEPT ![r] = NoLocals]
           /\ glob' = FreshAddr
           /\ heap' = Collect([heap EXCEPT ![glob'] = res.store], glob', loc')
           /\ Respond(r, "clear", <<>>, [res EXCEPT !.json.cleared_count = loc[r].count])
    /\ UNCHANGED srvNow

\* the thread of an answered request takes the next request
NextRequest(r) ==
    /\ pc[r] = "done"
    /\ pc' = [pc EXCEPT ![r] = "idle"]
    /\ answered' = [answered EXCEPT ![r] = NoHl7Resp]
    /\ UNCHANGED <<srvNow, hl7Resp, heap, glob, loc>>

\* no handler is running: requests come one after another
Sequential == \A q \in Requests : pc[q] \in {"idle", "done"}

\* bodies of the requests made concurrently
ConcBodies == {BodyOru, BodyInvalid}

Hl7Idle == UNCHANGED <<now, secretKey, issued, lisResp>>

(***************************************************************************)
(* Specifications.                                                         *)
(***************************************************************************)
Hl7Start ==
    /\ srvNow = 0
    /\ hl7Resp = NoHl7Resp
    /\ heap = [a \in Addrs |-> <<>>]
    /\ glob = 1
    /\ pc = [r \in Requests |-> "idle"]
    /\ loc = [r \in Requests |-> NoLocals]
    /\ answered = [r \in Requests |-> NoHl7Resp]

Init == LisInit /\ Hl7Start

\* the analyzer middleware under every kind of token, over time
Next ==
    \/ Advance /\ LisIdle
    \/ Login(ClockSkews) /\ LisIdle
    \/ GetPendingTests /\ LisIdle
    \/ UploadResults(AuthPaths, HeaderTokens) /\ LisIdle
    \/ GetTestsList /\ LisIdle

Spec == Init /\ [][Next]_vars

\* the results upload over every path of PathInputs, right after process start,
\* the clock standing still
NextUpload ==
    \/ Login({0}) /\ LisIdle
    \/ UploadResults(PathInputs, {AbsentToken} \cup IssuedTokens) /\ LisIdle

SpecUpload == Init /\ [][NextUpload]_vars

\* the HL7 server with its requests made one after another: a request is made
\* only when no handler is running
NextHl7 ==
    \/ Sequential /\ HealthCheck(1) /\ Hl7Idle
    \/ Sequential /\ ValidateMessage(1, Bodies) /\ Hl7Idle
    \/ Sequential /\ ReceiveRecord(1, Bodies) /\ Hl7Idle
    \/ ReceiveLoad(1) /\ Hl7Idle
    \/ ReceiveAppend(1) /\ Hl7Idle
    \/ Sequential /\ ListLoad(1) /\ Hl7Idle
    \/ ListLen(1) /\ Hl7Idle
    \/ ListRef(1) /\ Hl7Idle
    \/ ListJson(1) /\ Hl7Idle
    \/ Sequential /\ ClearLoad(1) /\ Hl7Idle
    \/ ClearLen(1) /\ Hl7Idle
    \/ ClearBind(1) /\ Hl7Idle
    \/ NextRequest(1) /\ Hl7Idle

SpecHl7 == Init /\ [][NextHl7]_vars

\* the HL7 server under concurrent receive, list and clear requests, one to a thread
NextConc ==
    \E r \in Requests :
        \/ ReceiveRecord(r, ConcBodies) /\ Hl7Idle
        \/ ReceiveLoad(r) /\ Hl7Idle
        \/ ReceiveAppend(r) /\ Hl7Idle
        \/ ListLoad(r) /\ Hl7Idle
        \/ ListLen(r) /\ Hl7Idle
        \/ ListRef(r) /\ Hl7Idle
        \/ ListJson(r) /\ Hl7Idle
        \/ ClearLoad(r) /\ Hl7Idle
        \/ ClearLen(r) /\ Hl7Idle
        \/ ClearBind(r) /\ Hl7Idle

SpecConc == Init /\ [][NextConc]_vars


(***************************************************************************)
(* Claims about the analyzer middleware.                                   *)
(***************************************************************************)
GatedEndpoints == {"tests_lis_download", "results_lis_upload", "get_tests_list"}
AuthErrors == {Str("INVALID_LOGIN"), Str("EXPIRED_TOKEN")}

\* the token of the last request is absent, empty, no JWT, or not signed with the
\* process's key
BadToken ==
    \/ lisResp.token.kind \in {"absent", "empty", "garbage"}
    \/ lisResp.token.kind = "jwt" /\ lisResp.token.sig # secretKey

\* C1: on the three gated endpoints a request whose token is absent, empty or fails
\* signature verification is answered exactly INVALID_LOGIN, whatever the sample id
\* or path data: the token is decided before any lookup.
C1_InvalidLoginBeforeLookup ==
    (lisResp.ep \in GatedEndpoints /\ BadToken) => lisResp.text = Str("INVALID_LOGIN")

\* an upload for an unknown sample, with a forged token that is also long expired
C1_Witness ==
    /\ lisResp.ep = "results_lis_upload"
    /\ lisResp.token.kind = "jwt" /\ lisResp.token.sig # secretKey
    /\ lisResp.token.payload.exp = 0
    /\ lisResp.at >= LifetimeTicks
    /\ lisResp.arg = <<"S999", "|", "CBC", "=", "1">>
    /\ lisResp.text = Str("INVALID_LOGIN")

\* the last request is a gated one that presented the token of issuance i
PresentedIssued(i) == lisResp.ep \in GatedEndpoints /\ lisResp.token = i.token

\* C2 as stated: a token issued at t0 is accepted while the current time is before
\* t0 + 60 minutes and answered EXPIRED_TOKEN from t0 + 60 minutes on.
C2_ExpiresSixtyMinutesAfterIssue ==
    \A i \in issued :
        PresentedIssued(i) =>
            IF lisResp.at < i.at + LifetimeTicks
            THEN lisResp.text \notin AuthErrors
            ELSE lisResp.text = Str("EXPIRED_TOKEN")

\* the expires-at a token carries: t0 + 60 minutes cut down to a whole second
ExpiresAt(i) == ToSeconds(i.at + LifetimeTicks) * TicksPerSecond

\* C2 (amended): a token issued at t0 is accepted by every gated endpoint while the
\* current time is before its expires-at, which is t0 + 60 minutes cut down to a
\* whole second, and is answered EXPIRED_TOKEN at every later instant.
C2_ExpiresAtWholeSecond ==
    \A i \in issued :
        PresentedIssued(i) =>
            IF lisResp.at < ExpiresAt(i)
            THEN lisResp.text \notin AuthErrors
            ELSE lisResp.text = Str("EXPIRED_TOKEN")

\* a token refused as expired less than 60 minutes after its login
C2_Witness ==
    \E i \in issued :
        /\ PresentedIssued(i)
        /\ lisResp.at >= ExpiresAt(i) /\ lisResp.at < i.at + LifetimeTicks
        /\ lisResp.text = Str("EXPIRED_TOKEN")

\* C3: login with the valid pair answers OK_LOGIN|<token>, and that token validates
\* (before expiry) to the user name that logged in; any other pair answers
\* INVALID_LOGIN and gets no token.
C3_LoginRoundTrip ==
    /\ lisResp.ep = "login" =>
          IF lisResp.userName = VALID_USERNAME /\ lisResp.password = VALID_PASSWORD
          THEN /\ lisResp.text = <<"OK_LOGIN", "|">>
               /\ lisResp.newToken.kind = "jwt"
               /\ \E i \in issued : i.token = lisResp.newToken /\ i.at = lisResp.at
          ELSE /\ lisResp.text = Str("INVALID_LOGIN")
               /\ lisResp.newToken = AbsentToken
    /\ \A i \in issued :
          now < ExpiresAt(i) =>
              LET v == validate_token(i.token, secretKey, now)
              IN  ~v.raised /\ v.payload.sub = VALID_USERNAME
    /\ \A i \in issued : i.token.payload.sub = VALID_USERNAME

\* a token from an earlier login still validates later in the hour
C3_Witness ==
    /\ lisResp.ep = "login" /\ lisResp.text = <<"OK_LOGIN", "|">>
    /\ lisResp.userName = VALID_USERNAME
    /\ now >= LifetimeTicks - 1
    /\ \E i \in issued : i.at = 0 /\ ~validate_token(i.token, secretKey, now).raised

\* the parts of the last request's path, and its answer cut at the pipes
PathParts == SplitOn(lisResp.arg, "|")
AnswerParts == SplitOn(lisResp.text, "|")

\* the last request carried a token some login issued and that has not expired
ValidToken == \E i \in issued : lisResp.token = i.token /\ lisResp.at < ExpiresAt(i)

\* ti reads TestCode=Result with TestCode ordered for the sample
OrderedResult(ti, sample_id) ==
    \E j \in 1..Len(ti) :
        /\ ti[j] = "="
        /\ \A h \in 1..(j - 1) : ti[h] # "="
        /\ \E n \in 1..Len(MOCK_SAMPLES[sample_id].tests) :
              SubSeq(ti, 1, j - 1) = <<MOCK_SAMPLES[sample_id].tests[n]>>

\* C6: an upload with a valid token for a known sample and k >= 1 test tokens answers
\* exactly k flags joined by "|", the i-th being UPLOADED when the i-th token reads
\* TestCode=Result with TestCode ordered for the sample, NOT_FOUND otherwise.
C6_UploadFlagsInOrder ==
    (/\ lisResp.ep = "results_lis_upload" /\ ValidToken
     /\ Len(PathParts) >= 2
     /\ PathParts[1] \in {Str(id) : id \in DOMAIN MOCK_SAMPLES})
    => /\ Len(AnswerParts) = Len(PathParts) - 1
       /\ \A i \in 1..(Len(PathParts) - 1) :
             AnswerParts[i] =
                IF OrderedResult(PathParts[i + 1], PathParts[1][1])
                THEN Str("UPLOADED") ELSE Str("NOT_FOUND")

\* a test not ordered for the sample followed by an ordered one: the flags keep the order
C6_Witness ==
    /\ lisResp.ep = "results_lis_upload" /\ ValidToken
    /\ lisResp.arg = <<"S001", "|", "HBA1C", "=", "2", "|", "CBC", "=", "1">>
    /\ lisResp.text = <<"NOT_FOUND", "|", "UPLOADED">>

\* C9: with a valid token an unknown sample id answers exactly NOT_FOUND on the
\* pending-tests lookup and on the upload, and an upload path of fewer than two
\* parts answers NOT_FOUND even for a known sample.
C9_NotFound ==
    ValidToken =>
        /\ (lisResp.ep = "tests_lis_download"
              /\ lisResp.arg \notin {Str(id) : id \in DOMAIN MOCK_SAMPLES})
           => lisResp.text = Str("NOT_FOUND")
        /\ (lisResp.ep = "results_lis_upload"
              /\ PathParts[1] \notin {Str(id) : id \in DOMAIN MOCK_SAMPLES})
           => lisResp.text = Str("NOT_FOUND")
        /\ (lisResp.ep = "results_lis_upload" /\ Len(PathParts) < 2)
           => lisResp.text = Str("NOT_FOUND")

\* an upload path that is a known sample id and nothing else
C9_Witness ==
    /\ ValidToken
    /\ lisResp.ep = "results_lis_upload"
    /\ lisResp.arg = Str("S001")
    /\ lisResp.text = Str("NOT_FOUND")


(***************************************************************************)
(* Claims about the HL7 server.                                            *)
(***************************************************************************)
\* some request gets its response in this step
Answered == \E r \in Requests : pc[r] # "done" /\ pc'[r] = "done"

\* C4: with requests made one after another, DELETE /api/v1/hl7/messages answers
\* cleared_count equal to the number of records the store held just before and
\* leaves the store empty; a GET right after answers count 0 and no messages, and a
\* second clear right after answers 0.
C4_ClearCountsAndEmpties ==
    [][ Answered =>
          /\ hl7Resp'.op = "clear" =>
                /\ hl7Resp'.http = 200
                /\ hl7Resp'.json.cleared_count = Len(received_messages)
                /\ received_messages' = <<>>
          /\ (hl7Resp.op = "clear" /\ hl7Resp'.op = "list") =>
                hl7Resp'.json.count = 0 /\ hl7Resp'.json.messages = <<>>
          /\ (hl7Resp.op = "clear" /\ hl7Resp'.op = "clear") =>
                hl7Resp'.json.cleared_count = 0 ]_vars

\* a clear that removed two records
C4_Witness ==
    /\ hl7Resp.op = "clear"
    /\ hl7Resp.json.cleared_count = 2
    /\ received_messages = <<>>

\* C5: an empty body gets HTTP 400 with an error field from the receive
\* endpoint and HTTP 200 with valid:false from the validate endpoint.
C5_EmptyBodyValidate200 ==
    /\ (hl7Resp.op = "receive" /\ hl7Resp.body = <<>>) =>
          hl7Resp.http = 400 /\ "error" \in hl7Resp.json.keys
    /\ (hl7Resp.op = "validate" /\ hl7Resp.body = <<>>) =>
          /\ hl7Resp.http = 200
          /\ "valid" \in hl7Resp.json.keys /\ hl7Resp.json.valid = FALSE

\* the record a successful receive response describes
RecordOf(resp) ==
    [timestamp |-> resp.json.timestamp, message_type |-> resp.json.message_type[1],
     raw_message |-> resp.body, segment_count |-> resp.json.segment_count]

\* C7: a receive that answers success appends exactly one record, carrying the
\* message_type, segment_count and timestamp it returned and the raw text, at the end
\* of the store, the earlier records unchanged and in order; validate, list and health
\* never change the store; a receive that fails does not either; clear empties it.
C7_StoreEffects ==
    [][ IF Answered /\ hl7Resp'.op = "receive" /\ hl7Resp'.http = 200
        THEN received_messages' = Append(received_messages, RecordOf(hl7Resp'))
        ELSE IF Answered /\ hl7Resp'.op = "clear"
        THEN received_messages' = <<>>
        ELSE received_messages' = received_messages ]_vars

\* the handlers cannot get a message type out of the body: parsing it, finding its
\* MSH segment or reading that segment's ninth field raises
Unparseable(body) == body # <<>> /\ Hl7Extract(body).exc # "none"

\* C10: a non-empty body that is no parseable HL7 message, such as the tests'
\* INVALID|MESSAGE and INVALID, is rejected without being stored: receive answers
\* HTTP 400 with only an error field and leaves the store as it was, validate
\* answers HTTP 200 with valid:false and an error field; the error text is one
\* fixed string per endpoint, whatever exception was raised.
C10_UnparseableRejected ==
    [][ /\ \A b \in {BodyInvalidMessage, BodyInvalid} : Unparseable(b)
        /\ (Answered /\ hl7Resp'.op = "receive" /\ Unparseable(hl7Resp'.body)) =>
              /\ hl7Resp'.http = 400
              /\ hl7Resp'.json.keys = {"error"}
              /\ hl7Resp'.json.error = Str("Failed to parse HL7 message")
              /\ received_messages' = received_messages
        /\ (Answered /\ hl7Resp'.op = "validate" /\ Unparseable(hl7Resp'.body)) =>
              /\ hl7Resp'.http = 200
              /\ hl7Resp'.json.keys = {"valid", "error"}
              /\ hl7Resp'.json.valid = FALSE
              /\ hl7Resp'.json.error = Str("Invalid HL7 message format")
              /\ received_messages' = received_messages ]_vars

\* a rejected INVALID|MESSAGE with a record received before still in the store
C10_Witness ==
    /\ hl7Resp.op = "receive" /\ hl7Resp.body = BodyInvalidMessage
    /\ hl7Resp.http = 400
    /\ Len(received_messages) = 1

\* the sum of the cleared_count of the clear requests answered among 1..n
RECURSIVE ClearedTotal(_)
ClearedTotal(n) ==
    IF n = 0 THEN 0
    ELSE ClearedTotal(n - 1)
         + (IF answered[n].op = "clear" THEN answered[n].json.cleared_count ELSE 0)

\* C8: under every interleaving of concurrent receive, list and clear requests,
\* every record of a receive that answered success is either still in the store or
\* was counted by exactly one clear (no lost update), and every list response has
\* count equal to the length of the messages it returns (no torn read).
C8_Serialized ==
    /\ Sequential =>
          Cardinality({r \in Requests :
                          answered[r].op = "receive" /\ answered[r].http = 200})
             = Len(received_messages) + ClearedTotal(MaxRequests)
    /\ \A r \in Requests :
          answered[r].op = "list" =>
              answered[r].json.count = Len(answered[r].json.messages)

\* the segments of a body as the text shows them: the stripped text cut at the
\* carriage returns, each piece cut at the bars
BodySegments(body) ==
    LET lines == SplitOn(Strip(body), "\r")
    IN  [i \in 1..Len(lines) |-> SplitOn(lines[i], "|")]

\* the body holds some segment and none of them is named MSH
NoMshSegment(body) ==
    /\ Strip(body) # <<>>
    /\ \A i \in 1..Len(BodySegments(body)) : BodySegments(body)[i][1] # Str("MSH")

\* the pieces of the first segment named MSH
MshPieces(body) ==
    LET segs == BodySegments(body)
        k == CHOOSE i \in 1..Len(segs) :
                 /\ segs[i][1] = Str("MSH")
                 /\ \A j \in 1..(i - 1) : segs[j][1] # Str("MSH")
    IN  segs[k]

\* C11: a body with a segment but no MSH segment is answered with success
\* and message_type "Unknown" by receive, and with valid:true, message_type null and
\* has_msh false by validate; a body with an MSH segment gets MSH field 9 verbatim
\* from both, with has_msh true.
C11_UnknownWhenNoMsh ==
    /\ (hl7Resp.op = "receive" /\ NoMshSegment(hl7Resp.body)) =>
          /\ hl7Resp.http = 200
          /\ hl7Resp.json.status = Str("success")
          /\ hl7Resp.json.message_type = <<Str("Unknown")>>
    /\ (hl7Resp.op = "validate" /\ NoMshSegment(hl7Resp.body)) =>
          /\ hl7Resp.http = 200 /\ hl7Resp.json.valid = TRUE
          /\ hl7Resp.json.message_type = <<>>
          /\ hl7Resp.json.has_msh = FALSE
    /\ (/\ hl7Resp.op \in {"receive", "validate"}
        /\ Strip(hl7Resp.body) # <<>> /\ ~NoMshSegment(hl7Resp.body)) =>
          /\ hl7Resp.http = 200
          /\ Len(MshPieces(hl7Resp.body)) >= 9
          /\ hl7Resp.json.message_type = <<MshPieces(hl7Resp.body)[9]>>
          /\ hl7Resp.op = "validate" => hl7Resp.json.has_msh = TRUE

\* how many "=" a part of the path holds
EqualsIn(part) == Cardinality({j \in 1..Len(part) : part[j] = "="})

\* the last request is an upload with a valid token for a known sample
KnownSampleUpload ==
    /\ lisResp.ep = "results_lis_upload" /\ ValidToken
    /\ Len(PathParts) >= 2
    /\ PathParts[1] \in {Str(id) : id \in DOMAIN MOCK_SAMPLES}

\* C12 (as stated): in an upload for a known sample a token with no "=" and a token
\* with more than one "=" both get NOT_FOUND at their position, and the request still
\* answers one flag per token.
C12_ExactlyOneEquals ==
    KnownSampleUpload =>
        /\ Len(AnswerParts) = Len(PathParts) - 1
        /\ \A i \in 1..(Len(PathParts) - 1) :
              EqualsIn(PathParts[i + 1]) # 1 => AnswerParts[i] = Str("NOT_FOUND")

\* C12 (amended): in an upload for a known sample a token with no "=" gets NOT_FOUND
\* at its position; a token with more than one "=" is cut at its first "=" only, and
\* gets UPLOADED when the text before it is a test ordered for the sample (CBC=1=2
\* for a sample with CBC ordered) and NOT_FOUND otherwise; neither makes the whole
\* request fail: the answer still has one flag per token.
C12_CutAtFirstEquals ==
    KnownSampleUpload =>
        /\ Len(AnswerParts) = Len(PathParts) - 1
        /\ \A i \in 1..(Len(PathParts) - 1) :
              /\ AnswerParts[i] \in {Str("UPLOADED"), Str("NOT_FOUND")}
              /\ EqualsIn(PathParts[i + 1]) = 0 => AnswerParts[i] = Str("NOT_FOUND")
              /\ EqualsIn(PathParts[i + 1]) > 1 =>
                    (AnswerParts[i] = Str("UPLOADED")
                        <=> OrderedResult(PathParts[i + 1], PathParts[1][1]))

\* an upload for S001 of CBC=1=2 followed by a bare CBC
C12_Witness ==
    /\ KnownSampleUpload
    /\ lisResp.arg = <<"S001", "|", "CBC", "=", "1", "=", "2", "|", "CBC">>
    /\ EqualsIn(PathParts[2]) = 2 /\ EqualsIn(PathParts[3]) = 0
    /\ lisResp.text = <<"UPLOADED", "|", "NOT_FOUND">>

\* C13 (as stated): any two tokens issued by successful logins of the same subject
\* at different instants are distinct, however close together the instants are.
C13_DistinctTokens ==
    \A i, j \in issued :
        (i.token.payload.sub = j.token.payload.sub /\ i.at # j.at) => i.token # j.token

\* C13 (amended): two tokens issued by successful logins of the same subject are
\* distinct when the two logins begin in different whole seconds of the clock; two
\* logins all of whose clock readings fall in one whole second get the identical
\* token, since the payload holds only the subject and iat and exp as whole seconds.
C13_DistinctAcrossSeconds ==
    \A i, j \in issued :
        i.token.payload.sub = j.token.payload.sub =>
            /\ ToSeconds(i.at) # ToSeconds(j.at) => i.token # j.token
            /\ (\A t \in {i.iatAt, j.at, j.iatAt} : ToSeconds(t) = ToSeconds(i.at))
                  => i.token = j.token

\* two successful logins at different instants of one second, holding the same token
C13_Witness ==
    /\ lisResp.ep = "login" /\ lisResp.text = <<"OK_LOGIN", "|">>
    /\ \E i, j \in issued :
          /\ i.at # j.at
          /\ \A t \in {i.iatAt, j.at, j.iatAt} : ToSeconds(t) = ToSeconds(i.at)
          /\ j.at = lisResp.at /\ j.token = lisResp.newToken
          /\ i.token = j.token

=============================================================================
